---- MODULE Spec2Model ----
(***************************************************************************)
(* Model of response.go of go-fcm: the FCM error values, the errMap table, *)
(* Response.UnmarshalJSON, Result.UnmarshalJSON and Result.Unregistered.   *)
(*                                                                         *)
(* A JSON payload is modelled by its parsed shape.  A JSON value is a      *)
(* record tagged by t: "null", "string" (s), "number" (n for an integer    *)
(* literal that fits the target, lit for any other number literal),        *)
(* "array" (a) and "object" (o, a record from key to value; a key that is  *)
(* not in the object maps to Absent).  Bytes that are not valid JSON are   *)
(* the value Invalid.                                                      *)
(***************************************************************************)
EXTENDS Integers, Sequences, FiniteSets, TLC

VARIABLES r, data, err, ret

vars == <<r, data, err, ret>>

-----------------------------------------------------------------------------
(* Go values *)

\* The nil error.
nil == "nil"

\* A slice value: the nil slice, or a slice of the elements s.
NilSlice == [isnil |-> TRUE, elems |-> <<>>]
Slice(s) == [isnil |-> FALSE, elems |-> s]

\* The Err* package variables.  An error value is identified by the variable
\* holding it (errors.New returns a distinct pointer each time); type is the
\* dynamic type of the value and text the string it was built from.
ErrVars ==
  [ ErrMissingRegistration       |-> [type |-> "errorString",     text |-> "MissingRegistration"],
    ErrInvalidRegistration       |-> [type |-> "errorString",     text |-> "InvalidRegistration"],
    ErrNotRegistered             |-> [type |-> "errorString",     text |-> "NotRegistered"],
    ErrInvalidPackageName        |-> [type |-> "errorString",     text |-> "InvalidPackageName"],
    ErrMismatchSenderID          |-> [type |-> "errorString",     text |-> "MismatchSenderId"],
    ErrMessageTooBig             |-> [type |-> "errorString",     text |-> "MessageTooBig"],
    ErrInvalidDataKey            |-> [type |-> "errorString",     text |-> "InvalidDataKey"],
    ErrInvalidTTL                |-> [type |-> "errorString",     text |-> "InvalidTTL"],
    ErrUnavailable               |-> [type |-> "connectionError", text |-> "Unavailable"],
    ErrInternalServerError       |-> [type |-> "serverError",     text |-> "InternalServerError"],
    ErrDeviceMessageRateExceeded |-> [type |-> "errorString",     text |-> "DeviceMessageRateExceeded"],
    ErrTopicsMessageRateExceeded |-> [type |-> "errorString",     text |-> "TopicsMessageRateExceeded"],
    ErrInvalidParameters         |-> [type |-> "errorString",     text |-> "InvalidParameters"],
    ErrUnknown                   |-> [type |-> "errorString",     text |-> "Unknown"],
    ErrInvalidApnsCredential     |-> [type |-> "errorString",     text |-> "InvalidApnsCredential"] ]

ErrUnknown == "ErrUnknown"

\* errMap: wire code -> error variable.
errMap ==
  [ MissingRegistration       |-> "ErrMissingRegistration",
    InvalidRegistration       |-> "ErrInvalidRegistration",
    NotRegistered             |-> "ErrNotRegistered",
    InvalidPackageName        |-> "ErrInvalidPackageName",
    MismatchSenderId          |-> "ErrMismatchSenderID",
    MessageTooBig             |-> "ErrMessageTooBig",
    InvalidDataKey            |-> "ErrInvalidDataKey",
    InvalidTtl                |-> "ErrInvalidTTL",
    Unavailable               |-> "ErrUnavailable",
    InternalServerError       |-> "ErrInternalServerError",
    DeviceMessageRateExceeded |-> "ErrDeviceMessageRateExceeded",
    TopicsMessageRateExceeded |-> "ErrTopicsMessageRateExceeded",
    InvalidParameters         |-> "ErrInvalidParameters",
    InvalidApnsCredential     |-> "ErrInvalidApnsCredential" ]

\* The Error() method of an error value: connectionError.Error and
\* serverError.Error return string(err); an errors.New value returns its text.
ErrorText(e) == ErrVars[e].text

\* Temporary(): defined on connectionError and serverError only, true on both.
\* A value of any other type has no such method (it is no net.Error).
Temporary(e) ==
  CASE ErrVars[e].type = "connectionError" -> TRUE
    [] ErrVars[e].type = "serverError"     -> TRUE
    [] OTHER                               -> FALSE

\* Timeout(): true on connectionError, false on serverError.
Timeout_ServerToo(e) == ErrVars[e].type \in {"connectionError", "serverError"}

Timeout(e) ==
  CASE ErrVars[e].type = "connectionError" -> TRUE
    [] ErrVars[e].type = "serverError"     -> FALSE
    [] OTHER                               -> FALSE

\* The zero values of the two structs.
ZeroResult == [MessageID |-> "", RegistrationID |-> "", Error |-> nil]

ZeroResponse ==
  [ MulticastID |-> 0, Success |-> 0, Failure |-> 0, CanonicalIDs |-> 0,
    Results |-> NilSlice, FailedRegistrationIDs |-> NilSlice,
    MessageID |-> 0, Error |-> nil ]

IsResponse(v) == "Results" \in DOMAIN v
IsResult(v)   == "RegistrationID" \in DOMAIN v

\* len() of a slice value (the nil slice has length 0).
SliceLen(s) == Len(s.elems)

-----------------------------------------------------------------------------
(* JSON values *)

Absent  == [t |-> "absent"]
Invalid == [t |-> "invalid"]
Null    == [t |-> "null"]
Str(s)  == [t |-> "string", s |-> s]
Num(n)  == [t |-> "number", n |-> n]
NumLit(l) == [t |-> "number", lit |-> l]
Arr(a)  == [t |-> "array", a |-> a]
Obj(o)  == [t |-> "object", o |-> o]

-----------------------------------------------------------------------------
(* encoding/json, as json.Unmarshal fills the local structs of the two     *)
(* UnmarshalJSON methods.  A field decoder returns the value stored in the *)
(* (fresh, zero) field and whether the JSON value fitted the field's type. *)
(* A value that does not fit is skipped: the field keeps its zero value,   *)
(* decoding goes on and json.Unmarshal returns an *UnmarshalTypeError at   *)
(* the end.  null and a missing key leave the field alone.                 *)

SyntaxError        == "SyntaxError"
UnmarshalTypeError == "UnmarshalTypeError"

\* A field of Go type string.
decodeString(v) ==
  CASE v.t = "string"            -> [val |-> v.s, err |-> nil]
    [] v.t \in {"absent", "null"} -> [val |-> "",  err |-> nil]
    [] OTHER                     -> [val |-> "",  err |-> UnmarshalTypeError]

\* A field of Go type int or int64: only an integer literal in range fits.
decodeInt(v) ==
  CASE v.t = "number" /\ "n" \in DOMAIN v -> [val |-> v.n, err |-> nil]
    [] v.t \in {"absent", "null"}          -> [val |-> 0,   err |-> nil]
    [] OTHER                              -> [val |-> 0,   err |-> UnmarshalTypeError]

\* A field of Go type []string.
decodeStringSlice(v) ==
  CASE v.t = "array" ->
         [ val |-> Slice([i \in 1..Len(v.a) |-> decodeString(v.a[i]).val]),
           err |-> IF \E i \in 1..Len(v.a) : decodeString(v.a[i]).err # nil
                   THEN UnmarshalTypeError ELSE nil ]
    [] v.t \in {"absent", "null"} -> [val |-> NilSlice, err |-> nil]
    [] OTHER                     -> [val |-> NilSlice, err |-> UnmarshalTypeError]

\* json.Unmarshal(data, &result) of Result.UnmarshalJSON: the local struct
\* with three string fields.
UnmarshalResultStruct(d) ==
  LET zero == [MessageID |-> "", RegistrationID |-> "", Error |-> ""]
  IN CASE d.t = "invalid" -> [err |-> SyntaxError, result |-> zero]
       [] d.t = "null"    -> [err |-> nil, result |-> zero]
       [] d.t = "object"  ->
            LET m == decodeString(d.o.message_id)
                g == decodeString(d.o.registration_id)
                e == decodeString(d.o.error)
            IN [ err    |-> IF m.err # nil \/ g.err # nil \/ e.err # nil
                            THEN UnmarshalTypeError ELSE nil,
                 result |-> [MessageID |-> m.val, RegistrationID |-> g.val,
                             Error |-> e.val] ]
       [] OTHER           -> [err |-> UnmarshalTypeError, result |-> zero]

\* The classification of Result.UnmarshalJSON: the error stored in r.Error
\* for the wire code, given the error old that r.Error held before.
ResultStoreError_DropsUnknown(old, code) ==
  IF code # "" /\ code \in DOMAIN errMap THEN errMap[code] ELSE old

ResultStoreError(old, code) ==
  IF code # ""
  THEN IF code \in DOMAIN errMap THEN errMap[code] ELSE ErrUnknown
  ELSE old

\* The assignments of Result.UnmarshalJSON after a successful json.Unmarshal.
ResultAssign(r0, result) ==
  [ MessageID      |-> result.MessageID,
    RegistrationID |-> result.RegistrationID,
    Error          |-> ResultStoreError(r0.Error, result.Error) ]

\* Result.UnmarshalJSON as a function of the receiver and the payload:
\* the returned error and the receiver afterwards.
ResultDecode_RejectsUnknown(r0, d) ==
  LET u == UnmarshalResultStruct(d)
  IN IF u.err # nil
     THEN [err |-> u.err, r |-> r0]
     ELSE IF u.result.Error # "" /\ u.result.Error \notin DOMAIN errMap
          THEN [err |-> UnmarshalTypeError, r |-> r0]
          ELSE [err |-> nil, r |-> ResultAssign(r0, u.result)]

ResultDecode_NoEarlyReturn(r0, d) ==
  LET u == UnmarshalResultStruct(d)
  IN [err |-> u.err, r |-> ResultAssign(r0, u.result)]

ResultDecode(r0, d) ==
  LET u == UnmarshalResultStruct(d)
  IN IF u.err # nil
     THEN [err |-> u.err, r |-> r0]
     ELSE [err |-> nil, r |-> ResultAssign(r0, u.result)]

\* The results array: json.Unmarshal appends a zero Result for each element
\* and calls Result.UnmarshalJSON on it; an error returned by that call
\* aborts the whole decode at once.  val is the slice built so far.
RECURSIVE decodeResultsFrom_Reuse(_, _, _)
decodeResultsFrom_Reuse(a, i, acc) ==
  IF i > Len(a)
  THEN [val |-> Slice(acc), err |-> nil]
  ELSE LET e == ResultDecode(IF i = 1 THEN ZeroResult ELSE acc[i - 1], a[i])
       IN IF e.err # nil
          THEN [val |-> Slice(Append(acc, e.r)), err |-> e.err]
          ELSE decodeResultsFrom_Reuse(a, i + 1, Append(acc, e.r))

RECURSIVE decodeResultsFrom(_, _, _)
decodeResultsFrom(a, i, acc) ==
  IF i > Len(a)
  THEN [val |-> Slice(acc), err |-> nil]
  ELSE LET e == ResultDecode(ZeroResult, a[i])
       IN IF e.err # nil
          THEN [val |-> Slice(Append(acc, e.r)), err |-> e.err]
          ELSE decodeResultsFrom(a, i + 1, Append(acc, e.r))

\* A field of Go type []Result.
decodeResults(v) ==
  CASE v.t = "array"             -> decodeResultsFrom(v.a, 1, <<>>)
    [] v.t \in {"absent", "null"} -> [val |-> NilSlice, err |-> nil]
    [] OTHER                     -> [val |-> NilSlice, err |-> UnmarshalTypeError]

\* json.Unmarshal(data, &response) of Response.UnmarshalJSON.
UnmarshalResponseStruct(d) ==
  LET zero == [ MulticastID |-> 0, Success |-> 0, Failure |-> 0,
                CanonicalIDs |-> 0, Results |-> NilSlice,
                FailedRegistrationIDs |-> NilSlice, MessageID |-> 0, Error |-> "" ]
  IN CASE d.t = "invalid" -> [err |-> SyntaxError, response |-> zero]
       [] d.t = "null"    -> [err |-> nil, response |-> zero]
       [] d.t = "object"  ->
            LET mc == decodeInt(d.o.multicast_id)
                su == decodeInt(d.o.success)
                fa == decodeInt(d.o.failure)
                ca == decodeInt(d.o.canonical_ids)
                rs == decodeResults(d.o.results)
                fr == decodeStringSlice(d.o.failed_registration_ids)
                mi == decodeInt(d.o.message_id)
                er == decodeString(d.o.error)
            IN [ err |-> IF \/ mc.err # nil \/ su.err # nil \/ fa.err # nil
                            \/ ca.err # nil \/ fr.err # nil \/ mi.err # nil
                            \/ er.err # nil
                         THEN UnmarshalTypeError ELSE rs.err,
                 response |-> [ MulticastID |-> mc.val, Success |-> su.val,
                                Failure |-> fa.val, CanonicalIDs |-> ca.val,
                                Results |-> rs.val,
                                FailedRegistrationIDs |-> fr.val,
                                MessageID |-> mi.val, Error |-> er.val ] ]
       [] OTHER           -> [err |-> UnmarshalTypeError, response |-> zero]

\* The classification of Response.UnmarshalJSON (the top-level error).
ResponseStoreError(old, code) ==
  IF code # ""
  THEN IF code \in DOMAIN errMap THEN errMap[code] ELSE ErrUnknown
  ELSE old

\* The assignments of Response.UnmarshalJSON after a successful json.Unmarshal.
ResponseAssign_Exclusive(r0, response) ==
  [ MulticastID           |-> response.MulticastID,
    Success               |-> response.Success,
    Failure               |-> response.Failure,
    CanonicalIDs          |-> response.CanonicalIDs,
    Results               |-> response.Results,
    FailedRegistrationIDs |-> response.FailedRegistrationIDs,
    MessageID             |-> IF response.MulticastID # 0 THEN 0 ELSE response.MessageID,
    Error                 |-> ResponseStoreError(r0.Error, response.Error) ]

ResponseAssign(r0, response) ==
  [ MulticastID           |-> response.MulticastID,
    Success               |-> response.Success,
    Failure               |-> response.Failure,
    CanonicalIDs          |-> response.CanonicalIDs,
    Results               |-> response.Results,
    FailedRegistrationIDs |-> response.FailedRegistrationIDs,
    MessageID             |-> response.MessageID,
    Error                 |-> ResponseStoreError(r0.Error, response.Error) ]

\* Response.UnmarshalJSON as a function of the receiver and the payload.
ResponseDecode(r0, d) ==
  LET u == UnmarshalResponseStruct(d)
  IN IF u.err # nil
     THEN [err |-> u.err, r |-> r0]
     ELSE [err |-> nil, r |-> ResponseAssign(r0, u.response)]

\* Result.Unregistered.
Unregistered(res) ==
  res.Error \in { "ErrNotRegistered", "ErrMismatchSenderID",
                  "ErrMissingRegistration", "ErrInvalidRegistration" }

-----------------------------------------------------------------------------
(* The payloads the caller may pass *)

\* The longest results array.
MaxResults == 2

\* Strings that are not wire codes of errMap: known codes in another letter
\* case, the text of ErrUnknown and a code the table does not have.
OtherCodes == {"InvalidTTL", "notregistered", "UNAVAILABLE", "Unknown", "QuotaExceeded"}

Codes == DOMAIN errMap \cup OtherCodes

\* The values of an "error" key: missing, null, empty, a code, a number.
ErrorValues == {Absent, Null, Str(""), Num(5)} \cup {Str(c) : c \in Codes}

ResultObj(m, g, e) == Obj([message_id |-> m, registration_id |-> g, error |-> e])

ResultPayloads ==
  {ResultObj(m, g, e) : m \in {Absent, Str("1:abc")}, g \in {Absent, Str("reg2")},
                        e \in ErrorValues}
  \cup { ResultObj(Num(1), Absent, Str("NotRegistered")),
         ResultObj(Str("1:abc"), Arr(<<>>), Absent),
         Invalid, Null, Num(5), Arr(<<>>) }

\* Elements of a results array that decode, and elements that do not.
ElemOK ==
  { ResultObj(Str("1:abc"), Absent, Absent),
    ResultObj(Absent, Absent, Str("NotRegistered")),
    ResultObj(Str("1:abc"), Str("reg2"), Str("QuotaExceeded")) }

ElemBad == ResultObj(Absent, Absent, Num(5))

SeqsUpTo(S, n) == UNION {[1..k -> S] : k \in 0..n}

\* Arrays of elements that decode, arrays whose last element fails after
\* the earlier ones were decoded, two arrays that fail at once and an array
\* with a null element.
ResultsArrays ==
  SeqsUpTo(ElemOK, MaxResults)
  \cup {<<e, ElemBad>> : e \in ElemOK}
  \cup { Append([i \in 1..(MaxResults - 1) |-> ResultObj(Absent, Absent, Str("NotRegistered"))],
                ElemBad),
         <<Num(5)>>, <<ElemBad, ResultObj(Str("1:abc"), Absent, Absent)>>,
         <<Null, ResultObj(Absent, Absent, Str("NotRegistered"))>> }

RespObj(mc, su, fa, ca, rs, fr, mi, er) ==
  Obj([ multicast_id |-> mc, success |-> su, failure |-> fa, canonical_ids |-> ca,
        results |-> rs, failed_registration_ids |-> fr,
        message_id |-> mi, error |-> er ])

Multicast(rs) == RespObj(Num(7), Num(1), Num(1), Num(0), rs, Absent, Absent, Absent)

Topic(mi, er) == RespObj(Absent, Absent, Absent, Absent, Absent, Absent, mi, er)

ResponsePayloads ==
  {Multicast(Arr(a)) : a \in ResultsArrays}
  \cup {Topic(mi, e) : mi \in {Absent, Num(42)}, e \in ErrorValues}
  \cup \* both a multicast id and a top-level message id
       { RespObj(Num(7), Num(1), Num(0), Num(0),
                 Arr(<<ResultObj(Absent, Absent, Str("NotRegistered"))>>), Absent,
                 Num(42), e)
         : e \in {Absent, Str("Unavailable"), Str("UNAVAILABLE")} }
  \cup \* device group responses
       { RespObj(Absent, Num(1), Num(1), Absent, Absent, fr, Absent, Absent)
         : fr \in {Arr(<<Str("reg1")>>), Arr(<<Num(5)>>), Null} }
  \cup \* fields of the wrong type
       { RespObj(Str("7"), Absent, Absent, Absent, Absent, Absent, Absent, Absent),
         RespObj(Num(7), NumLit("1.5"), Absent, Absent, Absent, Absent, Absent, Absent),
         RespObj(Num(7), Absent, Absent, Absent, Str("x"), Absent, Absent, Absent),
         RespObj(Absent, Absent, Absent, Absent, Absent, Absent, Str("42"), Absent),
         Multicast(Null) }
  \cup {Invalid, Null, Num(5), Arr(<<>>)}

-----------------------------------------------------------------------------
(* The state machine: a caller holds one value r, a Response or a Result,  *)
(* and calls its methods.  data is the payload of the last UnmarshalJSON   *)
(* call on r, err the error that call returned, ret the value the last     *)
(* Unregistered call returned (i is the index in r.Results of the Result   *)
(* it was called on, 0 when r itself is the Result).                       *)

NoData == [t |-> "none"]
NoRet  == [called |-> FALSE]
Ret(i, v) == [called |-> TRUE, i |-> i, v |-> v]

Init ==
  /\ r \in {ZeroResponse, ZeroResult}
  /\ data = NoData
  /\ err = nil
  /\ ret = NoRet

\* var r Response
NewResponse ==
  /\ r' = ZeroResponse
  /\ data' = NoData
  /\ err' = nil
  /\ ret' = NoRet

\* var r Result
NewResult ==
  /\ r' = ZeroResult
  /\ data' = NoData
  /\ err' = nil
  /\ ret' = NoRet

\* err = r.UnmarshalJSON(d) on a Response.
ResponseUnmarshalJSON ==
  /\ IsResponse(r)
  /\ \E d \in ResponsePayloads :
       LET out == ResponseDecode(r, d)
       IN /\ r' = out.r
          /\ err' = out.err
          /\ data' = d
  /\ ret' = NoRet

\* err = r.UnmarshalJSON(d) on a Result.
ResultUnmarshalJSON ==
  /\ IsResult(r)
  /\ \E d \in ResultPayloads :
       LET out == ResultDecode(r, d)
       IN /\ r' = out.r
          /\ err' = out.err
          /\ data' = d
  /\ ret' = NoRet

\* r.Unregistered() on a Result.
ResultUnregistered ==
  /\ IsResult(r)
  /\ ret' = Ret(0, Unregistered(r))
  /\ UNCHANGED <<r, data, err>>

\* r.Results[i].Unregistered() on a Response.
ElementUnregistered ==
  /\ IsResponse(r)
  /\ \E i \in 1..SliceLen(r.Results) : ret' = Ret(i, Unregistered(r.Results.elems[i]))
  /\ UNCHANGED <<r, data, err>>

Next ==
  \/ NewResponse
  \/ NewResult
  \/ ResponseUnmarshalJSON
  \/ ResultUnmarshalJSON
  \/ ResultUnregistered
  \/ ElementUnregistered

Spec == Init /\ [][Next]_vars

-----------------------------------------------------------------------------
(* The payload of the last call, as the claims read it *)

\* A successful UnmarshalJSON call was the last call on r.
Decoded == data # NoData /\ err = nil

\* The string of the "error" key of a JSON value ("" when there is none).
CodeOf(d) ==
  IF d.t = "object" /\ d.o.error.t = "string" THEN d.o.error.s ELSE ""

\* The elements of the "results" key of the last payload.
HasResultsArray == IsResponse(r) /\ data.t = "object" /\ data.o.results.t = "array"

ResultsOf(d) == d.o.results.a

\* The string of the "message_id" key of a JSON value ("" when there is none).
MessageIdOf(d) ==
  IF d.t = "object" /\ d.o.message_id.t = "string" THEN d.o.message_id.s ELSE ""

\* The kinds of section 4.1 of the specification, by wire code.
KnownKinds ==
  [ MissingRegistration       |-> "ErrMissingRegistration",
    InvalidRegistration       |-> "ErrInvalidRegistration",
    NotRegistered             |-> "ErrNotRegistered",
    InvalidPackageName        |-> "ErrInvalidPackageName",
    MismatchSenderId          |-> "ErrMismatchSenderID",
    MessageTooBig             |-> "ErrMessageTooBig",
    InvalidDataKey            |-> "ErrInvalidDataKey",
    InvalidTtl                |-> "ErrInvalidTTL",
    Unavailable               |-> "ErrUnavailable",
    InternalServerError       |-> "ErrInternalServerError",
    DeviceMessageRateExceeded |-> "ErrDeviceMessageRateExceeded",
    TopicsMessageRateExceeded |-> "ErrTopicsMessageRateExceeded",
    InvalidParameters         |-> "ErrInvalidParameters",
    InvalidApnsCredential     |-> "ErrInvalidApnsCredential" ]

KnownCodes == DOMAIN KnownKinds

KindFor(c) == IF c \in KnownCodes THEN KnownKinds[c] ELSE "ErrUnknown"

UnregisteredCodes ==
  {"NotRegistered", "MismatchSenderId", "MissingRegistration", "InvalidRegistration"}

-----------------------------------------------------------------------------
(* C1 *)

\* C1: after a successful decode, a non-empty error code of the payload, at
\* the top level of a Response, in a Result and in every element of results,
\* is stored as the kind of its wire code when it is one of the 14 known
\* codes and as ErrUnknown otherwise (a known code in another letter case
\* included); distinct known codes are stored as distinct kinds, none of
\* them ErrUnknown.
C1_Classification ==
  /\ (Decoded /\ CodeOf(data) # "") => r.Error = KindFor(CodeOf(data))
  /\ (Decoded /\ HasResultsArray) =>
        \A i \in 1..Len(ResultsOf(data)) :
           CodeOf(ResultsOf(data)[i]) # "" =>
              r.Results.elems[i].Error = KindFor(CodeOf(ResultsOf(data)[i]))
  /\ \A c1, c2 \in KnownCodes :
        /\ ResultStoreError(nil, c1) # ErrUnknown
        /\ ResponseStoreError(nil, c1) # ErrUnknown
        /\ c1 # c2 => /\ ResultStoreError(nil, c1) # ResultStoreError(nil, c2)
                      /\ ResponseStoreError(nil, c1) # ResponseStoreError(nil, c2)

\* A Response whose top-level code is a known code in another letter case and
\* whose results hold a known code.
C1_Witness ==
  /\ Decoded /\ HasResultsArray
  /\ CodeOf(data) = "UNAVAILABLE" /\ r.Error = ErrUnknown
  /\ \E i \in 1..Len(ResultsOf(data)) :
        /\ CodeOf(ResultsOf(data)[i]) = "NotRegistered"
        /\ r.Results.elems[i].Error = "ErrNotRegistered"

-----------------------------------------------------------------------------
(* C2 *)

\* The Result the last Unregistered call was made on, and its payload.
RetResult  == IF ret.i = 0 THEN r ELSE r.Results.elems[ret.i]
RetPayload == IF ret.i = 0 THEN data ELSE ResultsOf(data)[ret.i]

\* C2: Unregistered() returns true exactly when the error of the Result is
\* one of ErrNotRegistered, ErrMismatchSenderID, ErrMissingRegistration,
\* ErrInvalidRegistration; and after a successful decode it returns true
\* exactly when the error code of the decoded payload is one of those four
\* wire codes.
C2_Unregistered ==
  ret.called =>
    /\ ret.v <=> RetResult.Error \in { "ErrNotRegistered", "ErrMismatchSenderID",
                                       "ErrMissingRegistration", "ErrInvalidRegistration" }
    /\ Decoded => (ret.v <=> CodeOf(RetPayload) \in UnregisteredCodes)

-----------------------------------------------------------------------------
(* C3 *)

\* C3: after a successful decode of a Response whose results key is an array
\* of N elements, Results has length N and Results[i] is what decoding
\* element i alone into a zero Result gives.
C3_ResultsElementwise ==
  (Decoded /\ HasResultsArray) =>
     /\ SliceLen(r.Results) = Len(ResultsOf(data))
     /\ \A i \in 1..Len(ResultsOf(data)) :
           /\ ResultDecode(ZeroResult, ResultsOf(data)[i]).err = nil
           /\ r.Results.elems[i] = ResultDecode(ZeroResult, ResultsOf(data)[i]).r
           /\ r.Results.elems[i].MessageID = MessageIdOf(ResultsOf(data)[i])
           /\ (r.Results.elems[i].Error = nil) <=> (CodeOf(ResultsOf(data)[i]) = "")

\* An element with an error code followed by an element without one.
C3_Witness ==
  /\ Decoded /\ HasResultsArray
  /\ Len(ResultsOf(data)) >= 2
  /\ CodeOf(ResultsOf(data)[1]) = "NotRegistered"
  /\ CodeOf(ResultsOf(data)[2]) = ""
  /\ r.Results.elems[1].Error = "ErrNotRegistered"
  /\ r.Results.elems[2].Error = nil

-----------------------------------------------------------------------------
(* C4 *)

\* The JSON value does not fit a Go string / integer field.
WrongForString(v) == v.t \notin {"absent", "null", "string"}
WrongForInt(v) == v.t \notin {"absent", "null"} /\ ~(v.t = "number" /\ "n" \in DOMAIN v)

\* The JSON value does not fit a Result.
WrongForResult(d) ==
  \/ d.t \notin {"null", "object"}
  \/ /\ d.t = "object"
     /\ \/ WrongForString(d.o.message_id)
        \/ WrongForString(d.o.registration_id)
        \/ WrongForString(d.o.error)

\* The JSON value does not fit a Response.
WrongForResponse(d) ==
  \/ d.t \notin {"null", "object"}
  \/ /\ d.t = "object"
     /\ \/ WrongForInt(d.o.multicast_id) \/ WrongForInt(d.o.success)
        \/ WrongForInt(d.o.failure) \/ WrongForInt(d.o.canonical_ids)
        \/ WrongForInt(d.o.message_id) \/ WrongForString(d.o.error)
        \/ d.o.results.t \notin {"absent", "null", "array"}
        \/ /\ d.o.results.t = "array"
           /\ \E i \in 1..Len(d.o.results.a) : WrongForResult(d.o.results.a[i])
        \/ d.o.failed_registration_ids.t \notin {"absent", "null", "array"}
        \/ /\ d.o.failed_registration_ids.t = "array"
           /\ \E i \in 1..Len(d.o.failed_registration_ids.a) :
                 WrongForString(d.o.failed_registration_ids.a[i])

\* C4: UnmarshalJSON returns an error only for bytes that are not valid
\* JSON or for a value that does not fit its field's type; the content of a
\* well-typed payload (error codes, message id together with an error,
\* counts that differ from the number of results) never makes it fail.
C4_FailsOnlyOnSyntaxOrType ==
  (data # NoData /\ err # nil) =>
     \/ data = Invalid
     \/ IF IsResponse(r) THEN WrongForResponse(data) ELSE WrongForResult(data)

\* A successful decode of a response whose counts differ from the number of
\* results and whose result has a message id and an unknown error code.
C4_Witness ==
  /\ Decoded /\ HasResultsArray
  /\ r.Success + r.Failure # SliceLen(r.Results)
  /\ \E i \in 1..SliceLen(r.Results) :
        /\ r.Results.elems[i].MessageID # ""
        /\ r.Results.elems[i].Error = ErrUnknown

-----------------------------------------------------------------------------
(* C5 *)

\* C5: a call that returns an error leaves every field of the receiver as
\* it was before the call.
C5_NoPartialValue == [][err' # nil => r' = r]_vars

\* A Response that held a decoded value when a later decode failed in the
\* second or a later element of results.
C5_Witness ==
  /\ err # nil /\ HasResultsArray
  /\ Len(ResultsOf(data)) >= 2
  /\ ResultDecode(ZeroResult, ResultsOf(data)[1]).err = nil
  /\ r.MessageID # 0 /\ r.Error # nil /\ r.Results = NilSlice

-----------------------------------------------------------------------------
(* C6 *)

\* C6: after a successful decode the error of the receiver is set exactly
\* when the error code of the payload is present and not empty.
C6_ErrorPresence ==
  Decoded => ((r.Error # nil) <=> (CodeOf(data) # ""))

-----------------------------------------------------------------------------
(* C7 *)

FlagsFor(c, e) ==
  CASE c = "Unavailable"         -> Temporary(e) /\ Timeout(e)
    [] c = "InternalServerError" -> Temporary(e) /\ ~Timeout(e)
    [] OTHER                     -> ~Temporary(e) /\ ~Timeout(e)

\* C7: the error stored for the code Unavailable is temporary and a timeout,
\* the error stored for InternalServerError is temporary and no timeout, and
\* the error stored for any other non-empty code is neither.
C7_RetryFlags ==
  /\ (Decoded /\ CodeOf(data) # "") => FlagsFor(CodeOf(data), r.Error)
  /\ (Decoded /\ HasResultsArray) =>
        \A i \in 1..Len(ResultsOf(data)) :
           CodeOf(ResultsOf(data)[i]) # "" =>
              FlagsFor(CodeOf(ResultsOf(data)[i]), r.Results.elems[i].Error)

\* The error stored for InternalServerError.
C7_Witness ==
  /\ Decoded /\ CodeOf(data) = "InternalServerError"
  /\ r.Error = "ErrInternalServerError"
  /\ Temporary(r.Error) /\ ~Timeout(r.Error)

-----------------------------------------------------------------------------
(* C8 *)

MulticastPopulated(v) ==
  \/ v.MulticastID # 0 \/ v.Success # 0 \/ v.Failure # 0 \/ v.CanonicalIDs # 0
  \/ SliceLen(v.Results) > 0

TopicPopulated(v) == v.MessageID # 0 \/ v.Error # nil

IntOf(v) == IF v.t = "number" THEN v.n ELSE 0

-----------------------------------------------------------------------------
(* C9 *)

\* C9: after a successful decode the receiver is what decoding the same
\* payload into a zero value gives.
C9_DependsOnlyOnPayload ==
  Decoded =>
     r = IF IsResponse(r) THEN ResponseDecode(ZeroResponse, data).r
                          ELSE ResultDecode(ZeroResult, data).r

-----------------------------------------------------------------------------
(* C10 *)

\* C10: the text of the error stored for a known wire code is that code, and
\* the text of ErrUnknown is no known code.
C10_TextIsCode ==
  /\ (Decoded /\ CodeOf(data) \in KnownCodes) => ErrorText(r.Error) = CodeOf(data)
  /\ ErrorText(ErrUnknown) \notin KnownCodes

====
